---- MODULE Spec2Model ----
\* The interactive refactoring session of src/interact/main_thread.rs:
\* the session loop (InteractState), its mark set, the live file loader and
\* the channels that connect the session-loop thread to the worker thread.
EXTENDS Integers, Sequences, FiniteSets, TLC

VARIABLES
    current_marks,      \* InteractState.current_marks : HashSet<(NodeId, Symbol)>
    buffers_available,  \* InteractState.buffers_available : HashSet<PathBuf>
    last,               \* history: the request run_loop handled last, with its outcome
    cleared,            \* history: ids removed by RemoveMark, no AddMark/RunCommand since
    main_q,             \* the channel to_main / main_recv: requests, each with its arrival number
    worker_q,           \* the channel to_worker / worker_recv
    to_client,          \* the channel to_client: replies, each with its request's number
    worker_alive,       \* the worker thread runs (it holds worker_recv and to_main)
    pending,            \* worker: the file-content request it has put to the client
    oneshot,            \* the one-shot channel of the read_file call in progress
    pc,                 \* session loop thread: "recv", "compile", "blocked", "send", "ended", "crashed"
    cur,                \* the request handle_one is working on
    loader,             \* InteractiveFileLoader.buffers_available of the compiler run
    nread,              \* how many files of ReadPlan the compiler run has read
    seen,               \* history: what the reads of the compiler run returned
    latest,             \* history: the last completed file-content response per path
    nsent,              \* how many requests the client has sent
    arrived,            \* how many requests have arrived on main_recv
    handled,            \* how many requests run_loop has handled
    nquery,             \* how many files of ReadPlan the compiler run has queried or read
    client_open,        \* the receiver of the channel to_client exists
    literal,            \* translator: the string literal in hand and its conversion
    crate,              \* the node ids of the crate the source files now hold
    sending,            \* session loop thread: the outcome of cur whose replies are being sent
    parsed,             \* the node ids the crate root held when the compiler run read it
    held                \* the node ids in the client's buffer at each BufferText sent to the worker

state_vars == <<current_marks, buffers_available, last, cleared>>

thread_vars ==
    <<main_q, worker_q, to_client, worker_alive, pending, oneshot, pc, cur,
      loader, nread, seen, latest, nsent, arrived, handled, nquery>>

vars == <<state_vars, thread_vars, client_open, literal, crate, sending, parsed, held>>

-----------------------------------------------------------------------------
\* Bounds and data

\* Node ids of the crate are 1..MaxNodeId.
MaxNodeId == 2

Ids == 1..MaxNodeId

\* Strings are byte sequences, so that String's ordering can be computed.
Str_a == <<97>>
Str_ab == <<97, 98>>
Str_b == <<98>>

Labels == {Str_a, Str_ab, Str_b}

\* File names and paths.
File_a == <<97, 46, 114, 115>>                      \* "a.rs"
File_dot_a == <<46, 47>> \o File_a                  \* "./a.rs"
File_b == <<98, 46, 114, 115>>                      \* "b.rs"
File_gone == <<103, 46, 114, 115>>                  \* "g.rs", not on disk
File_macros == <<60, 109, 62>>                      \* "<m>", a synthetic file
Cwd == <<47, 119, 47>>                              \* "/w/"
Canon_a == Cwd \o File_a
Canon_b == Cwd \o File_b

\* The symbol interner: a Symbol is an index into the table of interned
\* strings.  The index order is not the order of the strings.
Interner == <<Str_b, Str_a, Str_ab>>

Symbols == 1..Len(Interner)

into_symbol(s) == CHOOSE i \in Symbols : Interner[i] = s

as_str(sym) == Interner[sym]

\* Ord for String: lexicographic on the bytes, a proper prefix is smaller.
RECURSIVE StrLt(_, _)
StrLt(s, t) ==
    IF t = <<>> THEN FALSE
    ELSE IF s = <<>> THEN TRUE
    ELSE IF Head(s) # Head(t) THEN Head(s) < Head(t)
    ELSE StrLt(Tail(s), Tail(t))

\* Vec<String>::sort(): a stable sort by the strings' order (insertion
\* sort gives the same result as any stable sort).
RECURSIVE InsertStr(_, _)
InsertStr(x, v) ==
    IF v = <<>> THEN <<x>>
    ELSE IF StrLt(x, Head(v)) THEN <<x>> \o v
    ELSE <<Head(v)>> \o InsertStr(x, Tail(v))

\* A sort that leaves the vector as it was pushed.
sort_skipped(v) == v

RECURSIVE sort(_)
sort(v) ==
    IF v = <<>> THEN <<>>
    ELSE InsertStr(v[Len(v)], sort(SubSeq(v, 1, Len(v) - 1)))

\* Iteration over a HashSet or a HashMap follows the hashes of the keys,
\* and these depend on the keys of the RandomState the map was made with:
\* the order differs from map to map and from run to run.  A hasher is
\* given by the order it puts the keys in; every order can occur.
RECURSIVE Orders(_)
Orders(S) ==
    IF S = {} THEN {<<>>}
    ELSE UNION {{<<x>> \o p : p \in Orders(S \ {x})} : x \in S}

\* The hashers of one handle_one call over the marks it iterates: the order
\* of the HashSet<(NodeId, Symbol)> and, where the HashMap<NodeId, MarkInfo>
\* of collect_mark_infos is built, the order of its ids.
RandomState(marks, with_map) ==
    {[set |-> p, map |-> q] :
        p \in Orders(marks),
        q \in IF with_map THEN Orders({m[1] : m \in marks}) ELSE {<<>>}}

\* The elements of S in the order of the hasher.
RECURSIVE iter(_, _)
iter(S, order) ==
    IF order = <<>> THEN <<>>
    ELSE (IF Head(order) \in S THEN <<Head(order)>> ELSE <<>>)
         \o iter(S, Tail(order))

\* The codemap's lookup of an id's span (hir_map().span, lookup_char_pos):
\* node i of the crate is the item on line i + 2 of a.rs.
SpanOf(id) ==
    [file |-> File_a, start_line |-> id + 2, start_col |-> 4,
     end_line |-> id + 2, end_col |-> 9]

MarkInfo(id, labels) ==
    [id |-> id,
     file |-> SpanOf(id).file,
     start_line |-> SpanOf(id).start_line,
     start_col |-> SpanOf(id).start_col,
     end_line |-> SpanOf(id).end_line,
     end_col |-> SpanOf(id).end_col,
     labels |-> labels]

\* The labels pushed for one id while iterating the marks, in iteration order.
RECURSIVE LabelsPushed(_, _)
LabelsPushed(id, ms) ==
    IF ms = <<>> THEN <<>>
    ELSE (IF Head(ms)[1] = id THEN <<as_str(Head(ms)[2])>> ELSE <<>>)
         \o LabelsPushed(id, Tail(ms))

\* infos_vec.sort_by_key(|i| i.id): stable insertion by id.
RECURSIVE InsertInfo(_, _)
InsertInfo(x, v) ==
    IF v = <<>> THEN <<x>>
    ELSE IF x.id < Head(v).id THEN <<x>> \o v
    ELSE <<Head(v)>> \o InsertInfo(x, Tail(v))

\* A sort_by_key that leaves the vector in the map's order.
sort_by_key_skipped(v) == v

RECURSIVE sort_by_key(_)
sort_by_key(v) ==
    IF v = <<>> THEN <<>>
    ELSE InsertInfo(v[Len(v)], sort_by_key(SubSeq(v, 1, Len(v) - 1)))

\* The HashMap<NodeId, MarkInfo> built by collect_mark_infos, drained in
\* the map's own iteration order, each info's labels (pushed in the order
\* the marks were iterated) sorted as it is moved to the vector.
RECURSIVE InfosDrained(_, _, _)
InfosDrained(ids, marks, k) ==
    IF ids = <<>> THEN <<>>
    ELSE <<MarkInfo(Head(ids), sort(LabelsPushed(Head(ids), iter(marks, k.set))))>>
         \o InfosDrained(Tail(ids), marks, k)

collect_mark_infos(marks, k) ==
    sort_by_key(InfosDrained(iter({m[1] : m \in marks}, k.map), marks, k))

-----------------------------------------------------------------------------
\* The collaborators of the session loop: file system, node picker, commands

OnDisk == {Canon_a, Canon_b}

starts_with(s, pre) ==
    Len(s) >= Len(pre) /\ SubSeq(s, 1, Len(pre)) = pre

\* fs::canonicalize: the absolute path of an existing file, or an error.
canonicalize(p) ==
    LET abs == IF starts_with(p, <<47>>) THEN p
               ELSE IF starts_with(p, <<46, 47>>)
                    THEN Cwd \o SubSeq(p, 3, Len(p))
                    ELSE Cwd \o p
    IN  IF abs \in OnDisk THEN [ok |-> TRUE, path |-> abs]
        ELSE [ok |-> FALSE, path |-> <<>>]

\* pick_node::NodeKind::from_str: the fixed vocabulary of node kinds.
NodeKinds == {"any", "item", "expr"}

\* pick_node::pick_node_at_loc: the crate's node i is an item spanning
\* columns 4..9 of line i + 2 of a.rs.
pick_node_at_loc(kind, file, line, col) ==
    IF /\ kind \in {"any", "item"}
       /\ file = File_a
       /\ line - 2 \in Ids
       /\ col \in 4..9
    THEN [some |-> TRUE, id |-> line - 2]
    ELSE [some |-> FALSE, id |-> 0]

\* Panic payloads: a String (a formatted message), a &'static str (a
\* literal message) or none.
NoPanic == [kind |-> "none", text |-> ""]

PanicString(text) == [kind |-> "String", text |-> text]

PanicStr(text) == [kind |-> "str", text |-> text]

\* command::Registry: the commands by name, each with its argument count.
CommandArity ==
    [noop |-> 0, reformat |-> 0, rename_marks |-> 2, rename_item |-> 2, crash |-> 0]

get_command(name, args) ==
    IF name \notin DOMAIN CommandArity THEN PanicString("invalid command")
    ELSE IF Len(args) # CommandArity[name] THEN PanicString("index out of bounds")
    ELSE NoPanic

Relabel(marks, old, new) ==
    {<<m[1], IF m[2] = into_symbol(old) THEN into_symbol(new) ELSE m[2]>> : m \in marks}

\* Command::run on a CommandState seeded with the crate and the marks: whether
\* it panicked, the two change flags, the rewritten files (the rewrite
\* applier's callbacks, in order) and the resulting marks.
cmd_run(name, args, marks) ==
    CASE name = "noop" ->
           [panic |-> NoPanic, krate_changed |-> FALSE, rws |-> <<>>,
            marks_changed |-> FALSE, marks |-> marks]
      [] name = "reformat" ->
           [panic |-> NoPanic, krate_changed |-> TRUE,
            rws |-> <<[file |-> File_macros, content |-> "expanded"],
                      [file |-> File_a, content |-> "reformatted"]>>,
            marks_changed |-> FALSE, marks |-> marks]
      [] name = "rename_marks" ->
           [panic |-> NoPanic, krate_changed |-> FALSE, rws |-> <<>>,
            marks_changed |-> TRUE, marks |-> Relabel(marks, args[1], args[2])]
      [] name = "rename_item" ->
           [panic |-> NoPanic, krate_changed |-> TRUE,
            rws |-> <<[file |-> File_a, content |-> "renamed"],
                      [file |-> File_b, content |-> "renamed"]>>,
            marks_changed |-> TRUE, marks |-> Relabel(marks, args[1], args[2])]
      [] OTHER ->
           [panic |-> PanicStr("explicit panic"), krate_changed |-> FALSE,
            rws |-> <<>>, marks_changed |-> FALSE, marks |-> marks]

-----------------------------------------------------------------------------
\* Messages

\* ToClient
Mark(info) == [type |-> "Mark", info |-> info]

MarkList(infos) == [type |-> "MarkList", infos |-> infos]

NewBufferText(file, content) ==
    [type |-> "NewBufferText", file |-> file, content |-> content]

Error(text) == [type |-> "Error", text |-> text]

\* ToServer
AddMark(file, line, col, kind, label) ==
    [type |-> "AddMark", file |-> file, line |-> line, col |-> col,
     kind |-> kind, label |-> label]

RemoveMark(id) == [type |-> "RemoveMark", id |-> id]

GetMarkInfo(id) == [type |-> "GetMarkInfo", id |-> id]

GetMarkList == [type |-> "GetMarkList"]

SetBuffersAvailable(files) == [type |-> "SetBuffersAvailable", files |-> files]

RunCommand(name, args) == [type |-> "RunCommand", name |-> name, args |-> args]

BufferText(file, content) ==
    [type |-> "BufferText", file |-> file, content |-> content]

-----------------------------------------------------------------------------
\* InteractState::handle_one

\* The part of handle_one that precedes its compiler run: the payload of
\* the panic it raises, if any.
PreCompile(msg) ==
    CASE msg.type = "AddMark" ->
           IF msg.kind \in NodeKinds THEN NoPanic
           ELSE PanicString("called Result::unwrap() on an Err value")
      [] msg.type = "RunCommand" -> get_command(msg.name, msg.args)
      [] msg.type = "BufferText" ->
           PanicStr("internal error: entered unreachable code")
      [] OTHER -> NoPanic

\* Whether handle_one reaches driver::run_compiler for this message.
RunsCompiler(msg) ==
    /\ msg.type \in {"AddMark", "GetMarkInfo", "GetMarkList", "RunCommand"}
    /\ PreCompile(msg) = NoPanic

\* The labels GetMarkInfo collects for one id, sorted.
LabelsOf(id, marks, k) == sort(LabelsPushed(id, iter(marks, k.set)))

\* The NewBufferText replies of the rewrite callback: none for a file whose
\* name starts with "<".
RECURSIVE RewriteReplies(_)
RewriteReplies(rws) ==
    IF rws = <<>> THEN <<>>
    ELSE (IF starts_with(Head(rws).file, <<60>>) THEN <<>>
          ELSE <<NewBufferText(Head(rws).file, Head(rws).content)>>)
         \o RewriteReplies(Tail(rws))

\* buffers_available after SetBuffersAvailable{files}.
CanonSet(files) ==
    {canonicalize(files[i]).path :
        i \in {j \in 1..Len(files) : canonicalize(files[j]).ok}}

\* The outcome of a handle_one call: the state it leaves, the replies it sent
\* and the panic that ended it (NoPanic when it returned).
Outcome(marks, bufs, sent, panic) ==
    [marks |-> marks, bufs |-> bufs, sent |-> sent, panic |-> panic]

\* An AddMark that inserts the mark before it looks at the picked node.
AddMarkBody_insert_first(marks, bufs, msg, k) ==
    LET label == into_symbol(msg.label)
        info == pick_node_at_loc(msg.kind, msg.file, msg.line, msg.col)
        added == marks \cup {<<info.id, label>>}
    IN  IF ~info.some
        THEN Outcome(added, bufs, <<>>, PanicString("no node at location"))
        ELSE Outcome(added, bufs,
                     <<Mark(MarkInfo(info.id, <<as_str(label)>>))>>, NoPanic)

\* An AddMark that replies with every label the node now carries.
AddMarkBody_all_labels(marks, bufs, msg, k) ==
    LET label == into_symbol(msg.label)
        info == pick_node_at_loc(msg.kind, msg.file, msg.line, msg.col)
        added == marks \cup {<<info.id, label>>}
    IN  IF ~info.some
        THEN Outcome(marks, bufs, <<>>, PanicString("no node at location"))
        ELSE Outcome(added, bufs,
                     <<Mark(MarkInfo(info.id, sort(LabelsPushed(info.id, iter(added, k.set)))))>>,
                     NoPanic)

\* The closure AddMark runs in the compiler, and the two lines after it.
AddMarkBody(marks, bufs, msg, k) ==
    LET label == into_symbol(msg.label)
        info == pick_node_at_loc(msg.kind, msg.file, msg.line, msg.col)
    IN  IF ~info.some
        THEN Outcome(marks, bufs, <<>>, PanicString("no node at location"))
        ELSE Outcome(marks \cup {<<info.id, label>>}, bufs,
                     <<Mark(MarkInfo(info.id, <<as_str(label)>>))>>, NoPanic)

\* A RemoveMark that clears the whole set.
RemoveMarkBody_clears_all(marks, bufs, msg, k) == Outcome({}, bufs, <<>>, NoPanic)

\* A retain whose test is the wrong way round.
RemoveMarkBody_inverted(marks, bufs, msg, k) ==
    [marks |-> {m \in marks : m[1] = msg.id}, bufs |-> bufs, sent |-> <<>>,
     panic |-> [kind |-> "none", text |-> ""]]

RemoveMarkBody(marks, bufs, msg, k) ==
    Outcome({m \in marks : m[1] # msg.id}, bufs, <<>>, NoPanic)

\* A GetMarkInfo that takes the labels out of the set as it collects them.
GetMarkInfoBody_drains(marks, bufs, msg, k) ==
    Outcome({m \in marks : m[1] # msg.id}, bufs,
            <<Mark(MarkInfo(msg.id, LabelsOf(msg.id, marks, k)))>>, NoPanic)

GetMarkInfoBody(marks, bufs, msg, k) ==
    Outcome(marks, bufs, <<Mark(MarkInfo(msg.id, LabelsOf(msg.id, marks, k)))>>, NoPanic)

GetMarkListBody(marks, bufs, msg, k) ==
    Outcome(marks, bufs, <<MarkList(collect_mark_infos(marks, k))>>, NoPanic)

\* A SetBuffersAvailable that adds to the set it had.
SetBuffersAvailableBody_merged(marks, bufs, msg, k) ==
    Outcome(marks, bufs \cup CanonSet(msg.files), <<>>, NoPanic)

SetBuffersAvailableBody(marks, bufs, msg, k) ==
    Outcome(marks, CanonSet(msg.files), <<>>, NoPanic)

\* A RunCommand that sends the new mark list and keeps the old marks.
RunCommandBody_marks_kept(marks, bufs, msg, k) ==
    LET st == cmd_run(msg.name, msg.args, marks)
        texts == IF st.krate_changed THEN RewriteReplies(st.rws) ELSE <<>>
    IN  IF st.panic # NoPanic THEN Outcome(marks, bufs, <<>>, st.panic)
        ELSE IF st.marks_changed
             THEN Outcome(marks, bufs,
                          texts \o <<MarkList(collect_mark_infos(st.marks, k))>>, NoPanic)
             ELSE Outcome(marks, bufs, texts, NoPanic)

\* A RunCommand that sends the new mark list ahead of the rewritten texts.
RunCommandBody_list_first(marks, bufs, msg, k) ==
    LET st == cmd_run(msg.name, msg.args, marks)
        texts == IF st.krate_changed THEN RewriteReplies(st.rws) ELSE <<>>
    IN  IF st.panic # NoPanic THEN Outcome(marks, bufs, <<>>, st.panic)
        ELSE IF st.marks_changed
             THEN Outcome(st.marks, bufs,
                          <<MarkList(collect_mark_infos(st.marks, k))>> \o texts, NoPanic)
             ELSE Outcome(marks, bufs, texts, NoPanic)

\* The closure RunCommand runs in the compiler.
RunCommandBody(marks, bufs, msg, k) ==
    LET st == cmd_run(msg.name, msg.args, marks)
        texts == IF st.krate_changed THEN RewriteReplies(st.rws) ELSE <<>>
    IN  IF st.panic # NoPanic THEN Outcome(marks, bufs, <<>>, st.panic)
        ELSE IF st.marks_changed
             THEN Outcome(st.marks, bufs,
                          texts \o <<MarkList(collect_mark_infos(st.marks, k))>>, NoPanic)
             ELSE Outcome(marks, bufs, texts, NoPanic)

\* A handle_one whose BufferText arm is empty.
handle_one_ignores_reserved(marks, bufs, msg, io, k) ==
    IF msg.type = "BufferText" THEN Outcome(marks, bufs, <<>>, NoPanic)
    ELSE IF PreCompile(msg) # NoPanic THEN Outcome(marks, bufs, <<>>, PreCompile(msg))
    ELSE IF RunsCompiler(msg) /\ io # NoPanic THEN Outcome(marks, bufs, <<>>, io)
    ELSE CASE msg.type = "AddMark" -> AddMarkBody(marks, bufs, msg, k)
           [] msg.type = "RemoveMark" -> RemoveMarkBody(marks, bufs, msg, k)
           [] msg.type = "GetMarkInfo" -> GetMarkInfoBody(marks, bufs, msg, k)
           [] msg.type = "GetMarkList" -> GetMarkListBody(marks, bufs, msg, k)
           [] msg.type = "SetBuffersAvailable" -> SetBuffersAvailableBody(marks, bufs, msg, k)
           [] msg.type = "RunCommand" -> RunCommandBody(marks, bufs, msg, k)

\* handle_one(msg) from the state (marks, bufs); io is the panic the file
\* loader raised during the compiler run (NoPanic when every read returned)
\* and k the hashers of the maps it iterates.
handle_one(marks, bufs, msg, io, k) ==
    IF PreCompile(msg) # NoPanic THEN Outcome(marks, bufs, <<>>, PreCompile(msg))
    ELSE IF RunsCompiler(msg) /\ io # NoPanic THEN Outcome(marks, bufs, <<>>, io)
    ELSE CASE msg.type = "AddMark" -> AddMarkBody(marks, bufs, msg, k)
           [] msg.type = "RemoveMark" -> RemoveMarkBody(marks, bufs, msg, k)
           [] msg.type = "GetMarkInfo" -> GetMarkInfoBody(marks, bufs, msg, k)
           [] msg.type = "GetMarkList" -> GetMarkListBody(marks, bufs, msg, k)
           [] msg.type = "SetBuffersAvailable" -> SetBuffersAvailableBody(marks, bufs, msg, k)
           [] msg.type = "RunCommand" -> RunCommandBody(marks, bufs, msg, k)

\* The nodes of the crate a compiler run parses: every request runs the
\* compiler anew on the source files as they are then, which hold the whole
\* of a.rs or a.rs with its last item deleted.
Crates == {Ids, Ids \ {MaxNodeId}}

\* cx.hir_map().span(id) panics for an id that has no node in the crate of
\* the compiler run.
SpanFault(nodes, ids) ==
    IF ids \subseteq nodes THEN NoPanic
    ELSE PanicString("could not find span for id")

\* handle_one in a compiler run whose crate has the nodes given.  The node
\* picker finds only nodes of the crate; GetMarkInfo looks up the span of its
\* id (line 164) and collect_mark_infos the span of every marked id (line
\* 90).  RunCommand has sent its NewBufferText replies and has assigned
\* current_marks (line 231) when it calls collect_mark_infos (line 233).
handle_one_in(nodes, marks, bufs, msg, io, k) ==
    LET r == handle_one(marks, bufs, msg, io, k)
        ids == {m[1] : m \in r.marks}
    IN  IF r.panic # NoPanic THEN r
        ELSE CASE msg.type = "AddMark" ->
                    IF pick_node_at_loc(msg.kind, msg.file, msg.line, msg.col).id \in nodes
                    THEN r
                    ELSE Outcome(marks, bufs, <<>>, PanicString("no node at location"))
               [] msg.type = "GetMarkInfo" ->
                    IF SpanFault(nodes, {msg.id}) = NoPanic THEN r
                    ELSE Outcome(marks, bufs, <<>>, SpanFault(nodes, {msg.id}))
               [] msg.type = "GetMarkList" ->
                    IF SpanFault(nodes, ids) = NoPanic THEN r
                    ELSE Outcome(marks, bufs, <<>>, SpanFault(nodes, ids))
               [] msg.type = "RunCommand" ->
                    IF r.sent = <<>> \/ r.sent[Len(r.sent)].type # "MarkList" THEN r
                    ELSE IF SpanFault(nodes, ids) = NoPanic THEN r
                    ELSE Outcome(r.marks, bufs, SubSeq(r.sent, 1, Len(r.sent) - 1),
                                 SpanFault(nodes, ids))
               [] OTHER -> r

\* The marks handle_one iterates for msg, if it gets that far: the set it
\* has for the two queries, the command's set for a RunCommand that changed
\* the marks, none otherwise.
Iterated(msg, marks) ==
    CASE msg.type \in {"GetMarkInfo", "GetMarkList"} -> marks
      [] msg.type = "RunCommand" /\ get_command(msg.name, msg.args) = NoPanic ->
           LET st == cmd_run(msg.name, msg.args, marks)
           IN  IF st.panic = NoPanic /\ st.marks_changed THEN st.marks ELSE {}
      [] OTHER -> {}

\* The text run_loop puts in the Error reply for a caught panic.
ErrorText(e) ==
    IF e.kind = "String" THEN e.text ELSE "An error occurred of unknown type"

\* One iteration of run_loop's body with every send succeeding: handle_one
\* inside catch_unwind, then the Error reply if it panicked.  sent lists
\* the sends in the order they are made.
LoopBody(nodes, marks, bufs, msg, io, k) ==
    LET r == handle_one_in(nodes, marks, bufs, msg, io, k)
    IN  IF r.panic = NoPanic THEN r
        ELSE [r EXCEPT !.sent = r.sent \o <<Error(ErrorText(r.panic))>>]

-----------------------------------------------------------------------------
\* The translator's string literals: Translation::convert_literal on a
\* CLiteral::String (c2rust-transpile/src/translator/literals.rs)

\* The longest literal, in bytes, and the largest array it initializes.
MaxLen == 4

MaxSize == 3

\* The bytes literals are made of: a zero, a letter and the byte that is
\* -128 as a signed char.
Bytes == {0, 97, 128}

\* The width of a character: char, char16_t, wchar_t.
Widths == {1, 2, 4}

\* The literals of one width: whole characters only; for width 1 also
\* every one-byte literal.
Literals(width) ==
    {v \in UNION {[1..n -> Bytes] : n \in 0..MaxLen} : Len(v) % width = 0}
    \cup (IF width = 1 THEN {<<c>> : c \in 0..255} ELSE {})

\* CTypeKind, as far as convert_literal looks at it.
ElemKinds == {"UChar", "Char"}

ConstantArray(elem_ty, size) ==
    [kind |-> "ConstantArray", elem_ty |-> elem_ty, size |-> size]

Pointer == [kind |-> "Pointer", elem_ty |-> "none", size |-> 0]

CTypeKinds ==
    {ConstantArray(e, n) : e \in ElemKinds, n \in 0..MaxSize} \cup {Pointer}

\* CQualTypeId: a type with its qualifiers.
CQualTypes == [ctype : CTypeKinds, qualifiers : [is_const : BOOLEAN]]

ExprContexts == [is_static : BOOLEAN, is_const : BOOLEAN]

\* A resize that extends and never truncates.
resize_pad_only(v, new_len, value) ==
    IF new_len <= Len(v) THEN v
    ELSE v \o [i \in 1..(new_len - Len(v)) |-> value]

\* Vec::resize(new_len, value): truncates, or extends with value.
resize(v, new_len, value) ==
    IF new_len <= Len(v) THEN SubSeq(v, 1, new_len)
    ELSE v \o [i \in 1..(new_len - Len(v)) |-> value]

\* The loop that pushes the zero terminator: width times push(0).
RECURSIVE push_terminator(_, _)
push_terminator(v, width) ==
    IF width = 0 THEN v ELSE push_terminator(Append(v, 0), width - 1)

\* expects_uchars after the match on the type.
expects_uchars(kind) == kind.kind = "ConstantArray" /\ kind.elem_ty = "UChar"

\* val after the match on the type: sized to the array, or terminated.
sized(val, width, kind) ==
    IF kind.kind = "ConstantArray" THEN resize(val, kind.size * width, 0)
    ELSE push_terminator(val, width)

\* Integers with their width: c as i8, then as i32.
as_i8(c) == [bits |-> 8, v |-> IF c >= 128 THEN c - 256 ELSE c]

\* The byte left as an i8.
as_i32_skipped(i) == i

as_i32(i) == [bits |-> 32, v |-> i.v]

MIN(bits) == IF bits = 8 THEN -128 ELSE -2147483647 - 1

\* abs(): the absolute value; on MIN it overflows, which panics in a build
\* with overflow checks and returns MIN in one without.
abs(i) ==
    IF i.v = MIN(i.bits) THEN [bits |-> i.bits, v |-> i.v, overflow |-> TRUE]
    ELSE [bits |-> i.bits, v |-> IF i.v < 0 THEN 0 - i.v ELSE i.v, overflow |-> FALSE]

\* x as u128: the number is plus + wraps * 2^128.
as_u128(x) == [wraps |-> IF x < 0 THEN 1 ELSE 0, plus |-> x]

\* mk(): the expressions and types the conversion builds.
int_lit(v) == [expr |-> "Lit", lit |-> v, suffix |-> "Unsuffixed"]

unary_expr(op, e) == [expr |-> "Unary", op |-> op, arg |-> e]

array_expr(vals) == [expr |-> "Array", elems |-> vals]

array_ty(elem, len) == [ty |-> "Array", elem |-> elem, len |-> len]

transmute_expr(source_ty, mutbl, e) ==
    [expr |-> "Transmute", source_ty |-> source_ty, mutbl |-> mutbl, arg |-> e]

\* WithStmts::new_val and WithStmts::new_unsafe_val
new_val(e) == [val |-> e, is_unsafe |-> FALSE]

new_unsafe_val(e) == [val |-> e, is_unsafe |-> TRUE]

ref_ty(t) == [ty |-> "Ref", to |-> t]

\* mk().lit_expr(val) on the byte vector: a byte string literal.
byte_str(val) == [expr |-> "ByteStr", bytes |-> val]

\* The element the static branch pushes for the byte c.
static_element(c, uchars) ==
    IF ~uchars /\ as_i8(c).v < 0
    THEN unary_expr("-", int_lit(as_u128(abs(as_i32(as_i8(c))).v)))
    ELSE int_lit(as_u128(c))

\* Whether the abs() taken for the byte c overflows.
abs_overflows(c, uchars) ==
    ~uchars /\ as_i8(c).v < 0 /\ abs(as_i32(as_i8(c))).overflow

\* convert_literal(ctx, ty, &CLiteral::String(val, width)): the byte vector
\* after the match on the type, whether an abs() overflowed, the result and
\* the features it asked for.
convert_literal(ctx, ty, val, width) ==
    LET uchars == expects_uchars(ty.ctype)
        bytes == sized(val, width, ty.ctype)
    IN  IF ctx.is_static
        THEN [bytes |-> bytes,
              overflow |-> \E i \in 1..Len(bytes) : abs_overflows(bytes[i], uchars),
              result |-> new_val(array_expr(
                  [i \in 1..Len(bytes) |-> static_element(bytes[i], uchars)])),
              features |-> {}]
        ELSE [bytes |-> bytes,
              overflow |-> FALSE,
              result |-> new_unsafe_val(unary_expr("*", transmute_expr(
                  ref_ty(array_ty("u8", int_lit(as_u128(Len(bytes))))),
                  IF ty.qualifiers.is_const THEN "Immutable" ELSE "Mutable",
                  byte_str(bytes)))),
              features |-> IF ctx.is_const THEN {"const_transmute"} ELSE {}]

\* No literal in hand.
NoLiteral == [pc |-> "none"]

-----------------------------------------------------------------------------
\* The session: its requests and the state interact_command constructs

\* The messages of the panics of unwrap() on a failed send and on a failed
\* recv (Result::unwrap formats the error into a String).
SendErrorText == "called Result::unwrap() on an Err value: SendError"

RecvErrorText == "called Result::unwrap() on an Err value: RecvError"

\* The compiler reads the crate's source files through the file loader.
ReadPlan == <<File_a, File_dot_a, File_b>>

\* The requests a client sends: every label on node 1 (line 3), one label on
\* each other node, and the requests that cannot succeed.
AddMarkRequests ==
    {AddMark(File_a, 3, 5, "item", l) : l \in Labels}
    \cup {AddMark(File_a, i + 2, 5, "any", Str_a) : i \in Ids \ {1}}
    \cup {AddMark(File_a, 3, 5, "expr", Str_a),
          AddMark(File_a, 1, 1, "item", Str_b),
          AddMark(File_a, 3, 5, "bogus", Str_a)}

SetBuffersRequests ==
    {SetBuffersAvailable(fs) :
        fs \in {<<>>, <<File_a>>, <<File_dot_a, File_gone, File_a>>, <<File_b>>}}

RunCommandRequests ==
    {RunCommand("noop", <<>>), RunCommand("reformat", <<>>),
     RunCommand("rename_marks", <<Str_ab, Str_b>>),
     RunCommand("rename_item", <<Str_b, Str_ab>>),
     RunCommand("rename_item", <<Str_b>>),
     RunCommand("crash", <<>>)}

Requests ==
    AddMarkRequests
    \cup {RemoveMark(i) : i \in Ids}
    \cup {GetMarkInfo(i) : i \in Ids}
    \cup {GetMarkList}
    \cup SetBuffersRequests
    \cup RunCommandRequests
    \cup {BufferText(File_a, "text")}

NoRequest == [type |-> "none"]

NoRecord ==
    [msg |-> NoRequest, io |-> NoPanic, pre_marks |-> {}, pre_bufs |-> {},
     sent |-> <<>>, panic |-> NoPanic]

\* Ids that RemoveMark cleared and no AddMark or RunCommand touched since.
ClearedAfter(c, msg) ==
    CASE msg.type = "RemoveMark" -> c \cup {msg.id}
      [] msg.type \in {"AddMark", "RunCommand"} -> {}
      [] OTHER -> c

NoPending == [state |-> "none", path |-> <<>>]

NoOneshot == [state |-> "none", content |-> ""]

NoCur == [n |-> 0, msg |-> NoRequest]

\* The session as interact_command constructs it, no request sent yet.
Started ==
    /\ current_marks = {}
    /\ buffers_available = {}
    /\ last = NoRecord
    /\ cleared = {}
    /\ main_q = <<>>
    /\ worker_q = <<>>
    /\ to_client = <<>>
    /\ worker_alive = TRUE
    /\ pending = NoPending
    /\ oneshot = NoOneshot
    /\ pc = "recv"
    /\ cur = NoCur
    /\ loader = {}
    /\ nread = 0
    /\ seen = <<>>
    /\ latest = [p \in OnDisk |-> ""]
    /\ nsent = 0
    /\ arrived = 0
    /\ handled = 0
    /\ nquery = 0
    /\ client_open = TRUE
    /\ crate = Ids
    /\ sending = <<>>
    /\ parsed = <<>>
    /\ held = <<>>

Init ==
    /\ Started
    /\ literal = NoLiteral

-----------------------------------------------------------------------------
\* The two threads: the session loop and the worker, with the client behind it

\* How many requests the client sends.
MaxRequests == 3

\* What the client's editor may hold for a file, and what is on disk.
Contents == {"disk text", "edited text"}

DiskContent(path) == "disk text"

ThreadRequests ==
    {SetBuffersAvailable(<<File_dot_a, File_gone>>),
     AddMark(File_a, 3, 5, "item", Str_b),
     AddMark(File_a, 3, 5, "expr", Str_a),
     RunCommand("rename_item", <<Str_b, Str_ab>>),
     BufferText(File_dot_a, "edited text")}

\* ToWorker
InputMessage(msg) == [kind |-> "InputMessage", msg |-> msg, path |-> <<>>]

NeedFile(path) == [kind |-> "NeedFile", msg |-> NoRequest, path |-> path]

\* A receive that takes the newest message of the channel.
recv_newest(q) == [m |-> q[Len(q)], rest |-> SubSeq(q, 1, Len(q) - 1)]

\* main_recv.iter(): the oldest message of the channel, and what stays.
recv(q) == [m |-> Head(q), rest |-> Tail(q)]

\* A file loader that asks the worker for every file.
ReadsFromWorker_always(canon, bufs) == TRUE

\* A file loader that never asks the worker.
ReadsFromWorker_never(canon, bufs) == FALSE

\* read_file's test: whether the canonical path is read through the worker.
ReadsFromWorker(canon, bufs) == canon \in bufs


\* handle_one(m) ends, by returning or by a panic, and the loop is back at
\* its receive (back); should the panic be one that run_loop does not catch,
\* the thread has ended by it.
Finish(m, io, marks, bufs, sent, panic, back) ==
    /\ current_marks' = marks
    /\ buffers_available' = bufs
    /\ last' = [msg |-> m.msg, io |-> io, pre_marks |-> current_marks,
                pre_bufs |-> buffers_available, sent |-> sent, panic |-> panic]
    /\ cleared' = ClearedAfter(cleared, m.msg)
    /\ handled' = handled + 1
    /\ pc' = back
    /\ cur' = NoCur
    /\ loader' = {}
    /\ nread' = 0
    /\ seen' = <<>>
    /\ nquery' = 0
    /\ sending' = <<>>
    /\ parsed' = <<>>

\* The session loop thread goes on to its next send on to_client, the send
\* number done + 1 of the outcome r, and makes it.  A send is one operation
\* on the channel; other threads run between two sends.  The state is
\* assigned as the code does it: before the Mark or the MarkList is sent
\* (lines 144, 231), after every NewBufferText (line 223).  A send fails
\* when the receiver is gone: its unwrap panics, the send of the Error
\* reply (line 67) fails as well and that panic, outside catch_unwind, ends
\* the thread.
Send(m, io, r, done, back) ==
    IF r.sent = <<>>
    THEN /\ Finish(m, io, r.marks, r.bufs, <<>>, r.panic, back)
         /\ UNCHANGED to_client
    ELSE IF client_open
    THEN /\ to_client' = Append(to_client, [n |-> m.n, reply |-> r.sent[done + 1]])
         /\ IF done + 1 = Len(r.sent)
            THEN Finish(m, io, r.marks, r.bufs, r.sent, r.panic, back)
            ELSE /\ sending' = <<[r |-> r, io |-> io, done |-> done + 1]>>
                 /\ pc' = "send"
                 /\ cur' = m
                 /\ UNCHANGED <<state_vars, handled, loader, nread, seen, nquery, parsed>>
    ELSE /\ Finish(m, io,
                   IF r.sent[done + 1].type = "NewBufferText"
                   THEN current_marks ELSE r.marks,
                   r.bufs, SubSeq(r.sent, 1, done),
                   IF r.sent[done + 1].type = "Error"
                   THEN r.panic ELSE PanicString(SendErrorText),
                   "crashed")
         /\ UNCHANGED to_client

\* The crate that the closure of the compiler run works on: the driver
\* parsed it from the crate root, the first file of ReadPlan, as read_file
\* returned it (lines 281-291); what the editor did to the file afterwards
\* is not in it.  Before that read no closure runs.
run_compiler_crate == IF parsed = <<>> THEN crate ELSE parsed[1]

\* A run_loop that handles one request and returns.
Complete_once(m, io) ==
    \E k \in RandomState(Iterated(m.msg, current_marks), m.msg.type # "GetMarkInfo") :
       \E r \in {LoopBody(run_compiler_crate, current_marks, buffers_available, m.msg, io, k)} :
          Send(m, io, r, 0, "ended")

\* The compiler run of handle_one(m) is over (io: the panic its file loader
\* raised, if any), or m needs none: the rest of handle_one runs up to its
\* first send, on maps hashed with keys of their own.
Complete(m, io) ==
    \E k \in RandomState(Iterated(m.msg, current_marks), m.msg.type # "GetMarkInfo") :
       \E r \in {LoopBody(run_compiler_crate, current_marks, buffers_available, m.msg, io, k)} :
          Send(m, io, r, 0, "recv")

\* A make_file_loader that gives the loader a new, empty set.
SessionRecv_empty_loader ==
    /\ pc = "recv"
    /\ main_q # <<>>
    /\ \E r \in {recv(main_q)} :
          /\ main_q' = r.rest
          /\ IF RunsCompiler(r.m.msg)
             THEN /\ pc' = "compile"
                  /\ cur' = r.m
                  /\ loader' = {}
                  /\ nread' = 0
                  /\ seen' = <<>>
                  /\ nquery' = 0
                  /\ UNCHANGED <<state_vars, sending, parsed, to_client, handled>>
             ELSE Complete(r.m, NoPanic)
    /\ UNCHANGED <<worker_q, worker_alive, pending, oneshot, latest, nsent, arrived>>
    /\ UNCHANGED client_open
    /\ UNCHANGED <<literal, crate, held>>

\* run_loop receives the next request; handle_one runs up to its compiler
\* run (make_file_loader copies buffers_available) or, without one, to its end.
SessionRecv ==
    /\ pc = "recv"
    /\ main_q # <<>>
    /\ \E r \in {recv(main_q)} :
          /\ main_q' = r.rest
          /\ IF RunsCompiler(r.m.msg)
             THEN /\ pc' = "compile"
                  /\ cur' = r.m
                  /\ loader' = buffers_available
                  /\ nread' = 0
                  /\ seen' = <<>>
                  /\ nquery' = 0
                  /\ UNCHANGED <<state_vars, sending, parsed, to_client, handled>>
             ELSE Complete(r.m, NoPanic)
    /\ UNCHANGED <<worker_q, worker_alive, pending, oneshot, latest, nsent, arrived>>
    /\ UNCHANGED client_open
    /\ UNCHANGED <<literal, crate, held>>

\* The compiler reads its next file: read_file canonicalizes the path and
\* either sends NeedFile to the worker and blocks, or reads the disk.  The
\* first file it reads is the crate root, which it parses as read.
LoaderRead ==
    /\ pc = "compile"
    /\ nread < Len(ReadPlan)
    /\ \E canon \in {canonicalize(ReadPlan[nread + 1]).path} :
          IF ReadsFromWorker(canon, loader)
          THEN IF worker_alive
               THEN /\ worker_q' = Append(worker_q, NeedFile(canon))
                    /\ oneshot' = [state |-> "waiting", content |-> ""]
                    /\ pc' = "blocked"
                    /\ UNCHANGED <<state_vars, sending, parsed, to_client, handled, cur, loader,
                                   nread, seen, nquery>>
               ELSE /\ Complete(cur, PanicString(SendErrorText))
                    /\ UNCHANGED <<worker_q, oneshot>>
          ELSE /\ seen' = Append(seen, [path |-> canon, via |-> "disk",
                                        bytes |-> DiskContent(canon),
                                        latest |-> latest[canon]])
               /\ nread' = nread + 1
               /\ nquery' = nread + 1
               /\ parsed' = IF nread = 0 THEN <<crate>> ELSE parsed
               /\ UNCHANGED <<state_vars, sending, to_client, handled, cur, loader, pc,
                              worker_q, oneshot>>
    /\ UNCHANGED <<main_q, worker_alive, pending, latest, nsent, arrived>>
    /\ UNCHANGED client_open
    /\ UNCHANGED <<literal, crate, held>>

\* The compiler asks file_exists or abs_path about the file it reads next:
\* both go to the real file loader.
LoaderQuery ==
    /\ pc = "compile"
    /\ nread < Len(ReadPlan)
    /\ nquery = nread
    /\ nquery' = nread + 1
    /\ UNCHANGED <<state_vars, main_q, worker_q, to_client, worker_alive, pending,
                   oneshot, pc, cur, loader, nread, seen, latest, nsent, arrived,
                   handled, client_open, sending, parsed>>
    /\ UNCHANGED <<literal, crate, held>>

\* A recv() with a timeout: it also gives up, with an error, while the
\* responder exists and has sent nothing.
LoaderWake_times_out ==
    /\ pc = "blocked"
    /\ oneshot.state \in {"value", "dropped", "waiting"}
    /\ IF oneshot.state = "value"
       THEN /\ seen' = Append(seen, [path |-> canonicalize(ReadPlan[nread + 1]).path,
                                     via |-> "worker",
                                     bytes |-> oneshot.content,
                                     latest |-> latest[canonicalize(ReadPlan[nread + 1]).path]])
            /\ nread' = nread + 1
            /\ nquery' = nread + 1
            /\ pc' = "compile"
            /\ UNCHANGED <<state_vars, sending, parsed, to_client, handled, cur, loader>>
       ELSE Complete(cur, PanicString(RecvErrorText))
    /\ oneshot' = NoOneshot
    /\ UNCHANGED <<main_q, worker_q, worker_alive, pending, latest, nsent, arrived>>
    /\ UNCHANGED client_open
    /\ UNCHANGED <<literal, crate, held>>

\* recv() on the one-shot channel returns: the content, or an error (the
\* responder was dropped) on which the unwrap panics.
LoaderWake ==
    /\ pc = "blocked"
    /\ oneshot.state \in {"value", "dropped"}
    /\ IF oneshot.state = "value"
       THEN /\ seen' = Append(seen, [path |-> canonicalize(ReadPlan[nread + 1]).path,
                                     via |-> "worker",
                                     bytes |-> oneshot.content,
                                     latest |-> latest[canonicalize(ReadPlan[nread + 1]).path]])
            /\ nread' = nread + 1
            /\ nquery' = nread + 1
            /\ pc' = "compile"
            /\ UNCHANGED <<state_vars, sending, parsed, to_client, handled, cur, loader>>
       ELSE Complete(cur, PanicString(RecvErrorText))
    /\ oneshot' = NoOneshot
    /\ UNCHANGED <<main_q, worker_q, worker_alive, pending, latest, nsent, arrived>>
    /\ UNCHANGED client_open
    /\ UNCHANGED <<literal, crate, held>>

\* The compiler run has read its files: the closure runs and handle_one ends.
SessionFinish ==
    /\ pc = "compile"
    /\ nread = Len(ReadPlan)
    /\ Complete(cur, NoPanic)
    /\ UNCHANGED <<main_q, worker_q, worker_alive, pending, oneshot, latest,
                   nsent, arrived>>
    /\ UNCHANGED client_open
    /\ UNCHANGED <<literal, crate, held>>

\* handle_one makes the next send of the request in hand.
SessionSend ==
    /\ pc = "send"
    /\ Send(cur, sending[1].io, sending[1].r, sending[1].done, "recv")
    /\ UNCHANGED <<main_q, worker_q, worker_alive, pending, oneshot, latest,
                   nsent, arrived>>
    /\ UNCHANGED client_open
    /\ UNCHANGED <<literal, crate, held>>

\* main_recv.iter() ends: the channel is empty and its sender is gone.
SessionEnd ==
    /\ pc = "recv"
    /\ main_q = <<>>
    /\ ~worker_alive
    /\ pc' = "ended"
    /\ UNCHANGED <<state_vars, main_q, worker_q, to_client, worker_alive, pending,
                   oneshot, cur, loader, nread, seen, latest, nsent, arrived, handled>>
    /\ UNCHANGED <<client_open, nquery, sending, parsed>>
    /\ UNCHANGED <<literal, crate, held>>

\* The client sends a request; the backend wraps it as an InputMessage.
ClientSend ==
    /\ worker_alive
    /\ nsent < MaxRequests
    /\ \E msg \in ThreadRequests :
          /\ worker_q' = Append(worker_q, InputMessage(msg))
          /\ held' = IF msg.type = "BufferText" THEN Append(held, crate) ELSE held
    /\ nsent' = nsent + 1
    /\ UNCHANGED <<state_vars, main_q, to_client, worker_alive, pending, oneshot,
                   pc, cur, loader, nread, seen, latest, arrived, handled>>
    /\ UNCHANGED <<client_open, nquery, sending, parsed>>
    /\ UNCHANGED <<literal, crate>>

\* The client answers the worker's question with its buffer's content.
ClientAnswer ==
    /\ worker_alive
    /\ pending.state = "asked"
    /\ \E c \in Contents :
          worker_q' = Append(worker_q, InputMessage(BufferText(pending.path, c)))
    /\ pending' = [pending EXCEPT !.state = "answered"]
    /\ held' = Append(held, crate)
    /\ UNCHANGED <<state_vars, main_q, to_client, worker_alive, oneshot, pc, cur,
                   loader, nread, seen, latest, nsent, arrived, handled>>
    /\ UNCHANGED <<client_open, nquery, sending, parsed>>
    /\ UNCHANGED <<literal, crate>>

\* The worker forwards a request to the session loop.
WorkerForward ==
    /\ worker_alive
    /\ worker_q # <<>>
    /\ Head(worker_q).kind = "InputMessage"
    /\ Head(worker_q).msg.type # "BufferText"
    /\ main_q' = Append(main_q, [n |-> arrived + 1, msg |-> Head(worker_q).msg])
    /\ arrived' = arrived + 1
    /\ worker_q' = Tail(worker_q)
    /\ UNCHANGED <<state_vars, to_client, worker_alive, pending, oneshot, pc, cur,
                   loader, nread, seen, latest, nsent, handled>>
    /\ UNCHANGED <<client_open, nquery, sending, parsed>>
    /\ UNCHANGED <<literal, crate, held>>

\* The worker takes a file-content request and asks the client.
WorkerNeedFile ==
    /\ worker_alive
    /\ worker_q # <<>>
    /\ Head(worker_q).kind = "NeedFile"
    /\ pending' = [state |-> "asked", path |-> Head(worker_q).path]
    /\ worker_q' = Tail(worker_q)
    /\ UNCHANGED <<state_vars, main_q, to_client, worker_alive, oneshot, pc, cur,
                   loader, nread, seen, latest, nsent, arrived, handled>>
    /\ UNCHANGED <<client_open, nquery, sending, parsed>>
    /\ UNCHANGED <<literal, crate, held>>

\* The worker takes the client's BufferText and sends its content to the
\* responder of the request it answers.  Should that be the read of the
\* crate root, the compiler run parses the crate out of this content.
WorkerBufferText ==
    /\ worker_alive
    /\ worker_q # <<>>
    /\ Head(worker_q).kind = "InputMessage"
    /\ Head(worker_q).msg.type = "BufferText"
    /\ worker_q' = Tail(worker_q)
    /\ IF /\ pending.state # "none"
          /\ canonicalize(Head(worker_q).msg.file).ok
          /\ canonicalize(Head(worker_q).msg.file).path = pending.path
       THEN /\ oneshot' = [state |-> "value", content |-> Head(worker_q).msg.content]
            /\ latest' = [latest EXCEPT ![pending.path] = Head(worker_q).msg.content]
            /\ pending' = NoPending
            /\ parsed' = IF pc = "blocked" /\ nread = 0 THEN <<Head(held)>> ELSE parsed
       ELSE UNCHANGED <<oneshot, latest, pending, parsed>>
    /\ held' = Tail(held)
    /\ UNCHANGED <<state_vars, main_q, to_client, worker_alive, pc, cur, loader,
                   nread, seen, nsent, arrived, handled>>
    /\ UNCHANGED <<client_open, nquery, sending>>
    /\ UNCHANGED <<literal, crate>>

\* The transport closes and the worker thread ends: worker_recv, to_main and
\* the responders it holds are dropped.
WorkerTerminate ==
    /\ worker_alive
    /\ worker_alive' = FALSE
    /\ worker_q' = <<>>
    /\ pending' = NoPending
    /\ oneshot' = IF oneshot.state = "waiting"
                  THEN [state |-> "dropped", content |-> ""]
                  ELSE oneshot
    /\ held' = <<>>
    /\ UNCHANGED <<state_vars, main_q, to_client, pc, cur, loader, nread, seen,
                   latest, nsent, arrived, handled>>
    /\ UNCHANGED <<client_open, nquery, sending, parsed>>
    /\ UNCHANGED <<literal, crate>>

NextThreads ==
    \/ SessionRecv
    \/ LoaderRead
    \/ LoaderQuery
    \/ LoaderWake
    \/ SessionFinish
    \/ SessionSend
    \/ SessionEnd
    \/ ClientSend
    \/ ClientAnswer
    \/ WorkerForward
    \/ WorkerNeedFile
    \/ WorkerBufferText
    \/ WorkerTerminate

SpecThreads == Init /\ [][NextThreads]_vars

\* Both threads keep running: a step of the session loop thread or of the
\* worker thread that stays possible is taken.  Nothing makes the client
\* send, answer or close.
SessionThread ==
    SessionRecv \/ LoaderRead \/ LoaderQuery \/ LoaderWake \/ SessionFinish
    \/ SessionSend \/ SessionEnd

WorkerThread == WorkerForward \/ WorkerNeedFile \/ WorkerBufferText

FairThreads == SpecThreads /\ WF_vars(SessionThread) /\ WF_vars(WorkerThread)

\* A responsive client as well: a question the worker has put to the client
\* and that stays open is answered.
ResponsiveThreads == FairThreads /\ WF_vars(ClientAnswer)

-----------------------------------------------------------------------------
\* A session in service: the requests before the session loop, any state

\* The state of a session after one more request, handled to its end.
Follows(s, msg) ==
    LET k == CHOOSE x \in RandomState(Iterated(msg, s.marks), TRUE) : TRUE
        r == handle_one(s.marks, s.bufs, msg, NoPanic, k)
    IN  [marks |-> r.marks, bufs |-> r.bufs, cleared |-> ClearedAfter(s.cleared, msg)]

RECURSIVE Reached(_)
Reached(S) ==
    LET T == S \cup {Follows(s, msg) : s \in S, msg \in Requests}
    IN  IF T = S THEN S ELSE Reached(T)

\* The states of current_marks and buffers_available that requests lead to
\* from the state interact_command constructs.
Sessions == Reached({[marks |-> {}, bufs |-> {}, cleared |-> {}]})

\* What the client has sent: one request, or two back to back: a
\* SetBuffersAvailable and the same again, or a GetMarkList behind a
\* BufferText or behind an AddMark that finds no node.
Arrivals ==
    {<<m>> : m \in Requests}
    \cup {<<m, m>> : m \in SetBuffersRequests}
    \cup {<<m, GetMarkList>> :
            m \in {BufferText(File_a, "text")} \cup
                  {a \in AddMarkRequests :
                      /\ a.kind \in NodeKinds
                      /\ ~pick_node_at_loc(a.kind, a.file, a.line, a.col).some}}

\* A session that has handled some requests: the loop is at its receive,
\* the next request is on main_recv and the one sent behind it, if any, is
\* with the worker.
Serving ==
    /\ \E s \in Sessions :
          /\ current_marks = s.marks
          /\ buffers_available = s.bufs
          /\ cleared = s.cleared
    /\ \E ms \in Arrivals :
          /\ main_q = <<[n |-> 1, msg |-> ms[1]]>>
          /\ worker_q = IF Len(ms) = 1 THEN <<>> ELSE <<InputMessage(ms[2])>>
          /\ nsent = Len(ms)
    /\ arrived = 1
    /\ last = NoRecord
    /\ to_client = <<>>
    /\ worker_alive = TRUE
    /\ pending = NoPending
    /\ oneshot = NoOneshot
    /\ pc = "recv"
    /\ cur = NoCur
    /\ loader = {}
    /\ nread = 0
    /\ seen = <<>>
    /\ latest = [p \in OnDisk |-> ""]
    /\ handled = 0
    /\ nquery = 0
    /\ client_open = TRUE
    /\ crate = Ids
    /\ sending = <<>>
    /\ parsed = <<>>
    /\ held = <<>>
    /\ literal = NoLiteral

\* The session loop thread handles what comes on main_recv, while the worker
\* forwards what it has, serves the file loader and ends when the transport
\* closes, and the client answers the worker's questions.
Next ==
    \/ SessionRecv
    \/ LoaderRead
    \/ LoaderQuery
    \/ LoaderWake
    \/ SessionFinish
    \/ SessionSend
    \/ SessionEnd
    \/ ClientAnswer
    \/ WorkerForward
    \/ WorkerNeedFile
    \/ WorkerBufferText
    \/ WorkerTerminate

Spec == Serving /\ [][Next]_vars

-----------------------------------------------------------------------------
\* The session loop when the channel to_client loses its receiver

\* The backend ends (the connection to the client closed) and drops the
\* receiver of to_client.
ReceiverDropped ==
    /\ client_open
    /\ client_open' = FALSE
    /\ UNCHANGED <<state_vars, thread_vars>>
    /\ UNCHANGED <<literal, crate, sending, parsed, held>>

NextClosing ==
    \/ Next
    \/ ReceiverDropped

SpecClosing == Serving /\ [][NextClosing]_vars

\* The two threads and the client, from the start of the session, with a
\* backend that may end at any time.
NextThreadsClosing ==
    \/ NextThreads
    \/ ReceiverDropped

SpecThreadsClosing == Init /\ [][NextThreadsClosing]_vars

\* Both threads keep running, as in FairThreads.
FairThreadsClosing ==
    SpecThreadsClosing /\ WF_vars(SessionThread) /\ WF_vars(WorkerThread)

-----------------------------------------------------------------------------
\* The session loop over a crate that the editor changes

\* The editor changes a.rs: the last item is deleted, or it is back.
CrateEdited ==
    /\ \E nodes \in Crates \ {crate} : crate' = nodes
    /\ UNCHANGED <<state_vars, thread_vars>>
    /\ UNCHANGED <<client_open, literal, sending, parsed, held>>

NextEdited ==
    \/ Next
    \/ CrateEdited

SpecEdited == Serving /\ [][NextEdited]_vars

-----------------------------------------------------------------------------
\* The translator converting one string literal

\* A string literal expression of the C AST reaches convert_literal, with
\* its type and the context it occurs in.
InitLiterals ==
    /\ Started
    /\ \E width \in Widths :
          \E val \in Literals(width) :
             \E ty \in CQualTypes :
                \E ctx \in ExprContexts :
                   literal = [pc |-> "input", ctx |-> ctx, ty |-> ty,
                              val |-> val, width |-> width]

\* convert_literal runs on the literal in hand.
ConvertLiteral ==
    /\ literal.pc = "input"
    /\ \E out \in {convert_literal(literal.ctx, literal.ty, literal.val,
                                     literal.width)} :
          literal' = [pc |-> "done", ctx |-> literal.ctx, ty |-> literal.ty,
                      val |-> literal.val, width |-> literal.width, out |-> out]
    /\ UNCHANGED <<state_vars, thread_vars, client_open, crate, sending, parsed, held>>

NextLiterals == ConvertLiteral

SpecLiterals == InitLiterals /\ [][NextLiterals]_vars

-----------------------------------------------------------------------------
\* Properties of the session loop

Range(v) == {v[i] : i \in 1..Len(v)}

\* Strictly ascending in String's order: sorted and free of duplicates.
StrictlySorted(v) == \A i \in 1..(Len(v) - 1) : StrLt(v[i], v[i + 1])

\* The labels (as strings) that a mark set holds for one id.
LabelSet(id, marks) == {Interner[m[2]] : m \in {x \in marks : x[1] = id}}

\* The (id, label string) pairs that a list of infos stands for.
PairsOf(infos) ==
    UNION {{<<infos[i].id, l>> : l \in Range(infos[i].labels)} : i \in 1..Len(infos)}

PairsIn(marks) == {<<m[1], Interner[m[2]]>> : m \in marks}

Returned == last.panic = NoPanic

\* C1: the Mark reply to GetMarkInfo{id} lists exactly the labels that
\* current_marks holds for id, in ascending lexicographic order, each once.
C1_GetMarkInfoLabels ==
    (last.msg.type = "GetMarkInfo" /\ Returned) =>
        /\ Len(last.sent) = 1
        /\ last.sent[1].type = "Mark"
        /\ last.sent[1].info.id = last.msg.id
        /\ StrictlySorted(last.sent[1].info.labels)
        /\ Range(last.sent[1].info.labels) = LabelSet(last.msg.id, current_marks)

\* A GetMarkInfo answered with the three labels of a node.
C1_Witness ==
    /\ last.msg.type = "GetMarkInfo"
    /\ Returned
    /\ last.sent[1].info.labels = <<Str_a, Str_ab, Str_b>>

\* C2: while no AddMark or RunCommand has followed RemoveMark{id},
\* GetMarkInfo{id} is answered by a Mark with no labels (by an Error only
\* when the compiler run failed: in the file loader, or in the span lookup
\* of an id the crate no longer has), and the MarkList answering
\* GetMarkList has no info for id.
C2_RemovedIsGone ==
    /\ (last.msg.type = "GetMarkInfo" /\ last.msg.id \in cleared) =>
          IF Returned
          THEN last.sent = <<Mark(MarkInfo(last.msg.id, <<>>))>>
          ELSE Len(last.sent) = 1 /\ last.sent[1].type = "Error"
    /\ (last.msg.type = "GetMarkList" /\ Returned) =>
          /\ Len(last.sent) = 1
          /\ last.sent[1].type = "MarkList"
          /\ \A i \in 1..Len(last.sent[1].infos) :
                last.sent[1].infos[i].id \notin cleared

\* GetMarkInfo of a removed id, answered while another id still has marks.
C2_Witness ==
    /\ last.msg.type = "GetMarkInfo"
    /\ last.msg.id \in cleared
    /\ Returned
    /\ current_marks # {}

NoSuchNode(msg) ==
    /\ msg.type = "AddMark"
    /\ msg.kind \in NodeKinds
    /\ ~pick_node_at_loc(msg.kind, msg.file, msg.line, msg.col).some

\* C5: an AddMark where no node of the kind is at the location is answered
\* by one Error and no Mark, and leaves current_marks as it was; the
\* GetMarkList that follows it lists exactly the marks from before it.
C5_FailedAddMark ==
    /\ [](NoSuchNode(last.msg) =>
            /\ Len(last.sent) = 1
            /\ last.sent[1].type = "Error"
            /\ current_marks = last.pre_marks)
    /\ [][(/\ NoSuchNode(last.msg)
           /\ last'.msg.type = "GetMarkList"
           /\ last'.panic = NoPanic)
          => /\ Len(last'.sent) = 1
             /\ last'.sent[1].type = "MarkList"
             /\ PairsOf(last'.sent[1].infos) = PairsIn(last.pre_marks)]_vars

\* A failed AddMark on a session that already has marks.
C5_Witness ==
    /\ NoSuchNode(last.msg)
    /\ last.pre_marks # {}

\* The replies of one type among those sent for a request.
OfType(sent, t) == {i \in 1..Len(sent) : sent[i].type = t}

\* C6: a RunCommand that returns sends one NewBufferText per rewritten
\* non-synthetic file exactly when the command reports the crate changed,
\* and one MarkList exactly when it reports the marks changed; then
\* current_marks is the command's set and the MarkList shows it.  With
\* neither flag it sends nothing and current_marks stays.
C6_RunCommandReplies ==
    (last.msg.type = "RunCommand" /\ Returned) =>
        LET st == cmd_run(last.msg.name, last.msg.args, last.pre_marks)
            real == {i \in 1..Len(st.rws) : st.rws[i].file[1] # 60}
            texts == OfType(last.sent, "NewBufferText")
            lists == OfType(last.sent, "MarkList")
        IN  /\ texts \cup lists = 1..Len(last.sent)
            /\ Cardinality(texts) = IF st.krate_changed THEN Cardinality(real) ELSE 0
            /\ st.krate_changed =>
                  {last.sent[i].file : i \in texts} = {st.rws[i].file : i \in real}
            /\ Cardinality(lists) = IF st.marks_changed THEN 1 ELSE 0
            /\ st.marks_changed =>
                  /\ current_marks = st.marks
                  /\ \A i \in lists :
                        PairsOf(last.sent[i].infos) = PairsIn(current_marks)
            /\ ~st.marks_changed => current_marks = last.pre_marks
            /\ (~st.krate_changed /\ ~st.marks_changed) => last.sent = <<>>

\* A command that rewrote two files and changed the marks it was given.
C6_Witness ==
    /\ last.msg.type = "RunCommand"
    /\ Returned
    /\ Cardinality(OfType(last.sent, "NewBufferText")) = 2
    /\ Cardinality(OfType(last.sent, "MarkList")) = 1
    /\ current_marks # last.pre_marks

\* The canonical paths of the entries of files that can be canonicalized.
CanonicalPaths(files) ==
    {c.path : c \in {x \in {canonicalize(f) : f \in Range(files)} : x.ok}}

\* C8: SetBuffersAvailable{files} sets buffers_available to the canonical
\* paths of the entries that can be canonicalized, whatever it was before,
\* sends nothing and does not panic; the same request again leaves the set
\* as it is.
C8_BuffersReplaced ==
    /\ [](last.msg.type = "SetBuffersAvailable" =>
            /\ buffers_available = CanonicalPaths(last.msg.files)
            /\ last.sent = <<>>
            /\ Returned)
    /\ [][(last.msg.type = "SetBuffersAvailable" /\ last'.msg = last.msg)
          => buffers_available' = buffers_available]_vars

\* A list with an entry that cannot be canonicalized, sent while another
\* path was available.
C8_Witness ==
    /\ last.msg.type = "SetBuffersAvailable"
    /\ File_gone \in Range(last.msg.files)
    /\ last.pre_bufs = {Canon_b}
    /\ buffers_available = {Canon_a}

\* C9: an AddMark that finds its node adds (id, label) to current_marks and
\* sends one Mark whose info has the node's id and only the new label.
C9_AddMarkReply ==
    (last.msg.type = "AddMark" /\ Returned) =>
        LET id == pick_node_at_loc(last.msg.kind, last.msg.file,
                                   last.msg.line, last.msg.col).id
        IN  /\ id \in Ids
            /\ last.sent = <<Mark(MarkInfo(id, <<last.msg.label>>))>>
            /\ PairsIn(current_marks) =
                  PairsIn(last.pre_marks) \cup {<<id, last.msg.label>>}
            /\ Cardinality(current_marks) <= Cardinality(last.pre_marks) + 1

\* An AddMark on a node that already carried two other labels.
C9_Witness ==
    /\ last.msg.type = "AddMark"
    /\ Returned
    /\ Cardinality(current_marks) = Cardinality(last.pre_marks) + 1
    /\ \E id \in Ids : Cardinality(LabelSet(id, current_marks)) = 3

\* C10: the MarkList answering GetMarkList has one info for each id that has
\* a mark and no other, in ascending order of id, each with the id's labels
\* in ascending lexicographic order.
C10_GetMarkList ==
    (last.msg.type = "GetMarkList" /\ Returned) =>
        /\ Len(last.sent) = 1
        /\ last.sent[1].type = "MarkList"
        /\ LET infos == last.sent[1].infos
           IN  /\ \A i \in 1..(Len(infos) - 1) : infos[i].id < infos[i + 1].id
               /\ {infos[i].id : i \in 1..Len(infos)} = {m[1] : m \in current_marks}
               /\ \A i \in 1..Len(infos) :
                     /\ StrictlySorted(infos[i].labels)
                     /\ Range(infos[i].labels) = LabelSet(infos[i].id, current_marks)
                     /\ infos[i] = MarkInfo(infos[i].id, infos[i].labels)

\* A list of two marked ids, the first with three labels.
C10_Witness ==
    /\ last.msg.type = "GetMarkList"
    /\ Returned
    /\ Len(last.sent[1].infos) = 2
    /\ Len(last.sent[1].infos[1].labels) = 3

\* C14: a BufferText that reaches the session loop is answered by exactly
\* one Error and changes neither current_marks nor buffers_available; the
\* loop stays at its receive, and the request after it is handled from the
\* state the BufferText found.
C14_ReservedMessage ==
    /\ [](last.msg.type = "BufferText" =>
            /\ Len(last.sent) = 1
            /\ last.sent[1].type = "Error"
            /\ last.panic # NoPanic
            /\ current_marks = last.pre_marks
            /\ buffers_available = last.pre_bufs)
    /\ [][(handled' = handled + 1 /\ last'.msg.type = "BufferText") =>
            pc' = "recv"]_vars
    /\ [][last.msg.type = "BufferText" =>
            /\ last'.pre_marks = last.pre_marks
            /\ last'.pre_bufs = last.pre_bufs]_vars

\* A BufferText handled by a session that has marks and available buffers.
C14_Witness ==
    /\ last.msg.type = "BufferText"
    /\ current_marks # {}
    /\ buffers_available # {}

\* C17: RemoveMark{id} removes the marks of id and no other: every mark of
\* another id stays, buffers_available stays, and nothing is sent, also
\* when id had no mark.
C17_RemoveMarkFrame ==
    last.msg.type = "RemoveMark" =>
        /\ current_marks = {m \in last.pre_marks : m[1] # last.msg.id}
        /\ \A m \in last.pre_marks : m[1] # last.msg.id => m \in current_marks
        /\ current_marks \subseteq last.pre_marks
        /\ buffers_available = last.pre_bufs
        /\ last.sent = <<>>
        /\ Returned

\* A RemoveMark of an id with marks, on a session with a mark on another id
\* and an available buffer.
C17_Witness ==
    /\ last.msg.type = "RemoveMark"
    /\ \E m \in last.pre_marks : m[1] = last.msg.id
    /\ current_marks # {}
    /\ buffers_available # {}

\* C18: GetMarkInfo and GetMarkList leave current_marks and buffers_available
\* as they were, whether they return or fail; one that returns has sent
\* exactly one reply, a Mark for GetMarkInfo and a MarkList for GetMarkList.
C18_QueriesReadOnly ==
    last.msg.type \in {"GetMarkInfo", "GetMarkList"} =>
        /\ current_marks = last.pre_marks
        /\ buffers_available = last.pre_bufs
        /\ Returned =>
              /\ Len(last.sent) = 1
              /\ last.sent[1].type =
                    (IF last.msg.type = "GetMarkInfo" THEN "Mark" ELSE "MarkList")

\* A GetMarkInfo of an id that has marks, answered on a session with an
\* available buffer.
C18_Witness ==
    /\ last.msg.type = "GetMarkInfo"
    /\ Returned
    /\ last.sent[1].info.labels # <<>>
    /\ \E m \in current_marks : m[1] # last.msg.id
    /\ buffers_available # {}

\* C21: among the replies of one RunCommand every NewBufferText comes before
\* the MarkList, in the order the rewrite produced them, and there is at most
\* one MarkList; a command that changed the crate and the marks and returned
\* has its MarkList as the last reply.
C21_TextsBeforeMarkList ==
    last.msg.type = "RunCommand" =>
        LET texts == OfType(last.sent, "NewBufferText")
            lists == OfType(last.sent, "MarkList")
            st == cmd_run(last.msg.name, last.msg.args, last.pre_marks)
        IN  /\ Cardinality(lists) <= 1
            /\ \A i \in texts : \A j \in lists : i < j
            /\ (Returned /\ st.krate_changed /\ st.marks_changed) =>
                  /\ Len(last.sent) = Len(RewriteReplies(st.rws)) + 1
                  /\ last.sent[Len(last.sent)].type = "MarkList"
                  /\ \A i \in 1..Len(RewriteReplies(st.rws)) :
                        last.sent[i] = RewriteReplies(st.rws)[i]

\* A command that rewrote two files and renamed a label that was in use: two
\* texts and then the mark list.
C21_Witness ==
    /\ last.msg = RunCommand("rename_item", <<Str_b, Str_ab>>)
    /\ Returned
    /\ \E m \in last.pre_marks : m[2] = into_symbol(Str_b)
    /\ Len(last.sent) = 3
    /\ last.sent[1].type = "NewBufferText"
    /\ last.sent[2].type = "NewBufferText"
    /\ last.sent[3].type = "MarkList"

\* The panic carries a message: an owned String or a string literal.
StringLike(e) == e.kind \in {"String", "str"}

\* C15: the text of the Error reply is the panic's own message whenever the
\* panic carries a String or a string literal, and the generic description
\* only when it carries neither.
C15_ErrorTextIsMessage ==
    last.panic # NoPanic =>
        last.sent[Len(last.sent)] =
            Error(IF StringLike(last.panic) THEN last.panic.text
                  ELSE "An error occurred of unknown type")

-----------------------------------------------------------------------------
\* Properties of the two threads

\* 1 while handle_one is working on a request, else 0.
InProgress == IF pc \in {"compile", "blocked", "send"} THEN 1 ELSE 0

\* C3: a request whose handling panics gets an Error reply, the last reply
\* on to_client, and leaves the loop at its receive with every other queued
\* request still queued; the loop takes the next request whenever one is
\* queued, loses none, and ends only when its channel is closed and empty.
C3_FaultsAreContained ==
    /\ [][(handled' = handled + 1 /\ last'.panic # NoPanic) =>
            /\ Len(to_client') = Len(to_client) + 1
            /\ to_client'[Len(to_client')] =
                  [n |-> handled', reply |-> Error(ErrorText(last'.panic))]
            /\ pc' = "recv"
            /\ \A i \in 1..Len(main_q) :
                  main_q[i].n # handled' => main_q[i] \in Range(main_q')]_vars
    /\ []((pc = "recv" /\ main_q # <<>>) => ENABLED SessionRecv)
    /\ [](pc = "ended" => (~worker_alive /\ main_q = <<>>))
    /\ [](handled + InProgress + Len(main_q) = arrived)

\* C4: requests are handled in the order of their arrival on main_recv, one
\* at a time, so the replies on to_client are in the order of the requests
\* they answer: no reply of a later request precedes a reply of an earlier one.
C4_RepliesInRequestOrder ==
    /\ \A i \in 1..(Len(to_client) - 1) : to_client[i].n <= to_client[i + 1].n
    /\ \A i \in 1..Len(to_client) : to_client[i].n <= handled + InProgress
    /\ InProgress = 1 => cur.n = handled + 1
    /\ \A i \in 1..Len(main_q) : main_q[i].n = handled + InProgress + i

\* Two RunCommand requests, the second queued while the first was being
\* handled, both answered with new buffer texts and a mark list.
C4_Witness ==
    /\ handled = 2
    /\ \E i, j \in 1..Len(to_client) :
          /\ to_client[i].n = 1 /\ to_client[i].reply.type = "MarkList"
          /\ to_client[j].n = 2 /\ to_client[j].reply.type = "NewBufferText"
    /\ main_q # <<>>

\* C7: a read of a path that was in buffers_available when the compiler run
\* began returns the content of the last completed file-content response for
\* that path, whatever is on disk; a read of any other path returns the
\* disk's content.
C7_ReadsFromBuffers ==
    /\ InProgress = 1 => loader = buffers_available
    /\ \A i \in 1..Len(seen) :
          IF seen[i].path \in buffers_available
          THEN seen[i].via = "worker" /\ seen[i].bytes = seen[i].latest
          ELSE seen[i].via = "disk" /\ seen[i].bytes = DiskContent(seen[i].path)

\* A compiler run that read a.rs twice through the worker, with contents
\* that differ from the disk's and from each other, and b.rs from disk.
C7_Witness ==
    /\ Len(seen) = 3
    /\ seen[1].path = Canon_a /\ seen[1].bytes = "edited text"
    /\ seen[2].path = Canon_a /\ seen[2].bytes = "disk text"
    /\ seen[1].bytes # DiskContent(Canon_a)
    /\ seen[3].path = Canon_b /\ seen[3].via = "disk"

DroppedWhileBlocked == pc = "blocked" /\ oneshot.state = "dropped"

\* C11: when the responder of the outstanding file-content request is dropped
\* with no value sent, the blocked read returns with a failure: the request
\* being handled ends, its last reply is an Error, the session state is as
\* it was before the request, and the loop is at its receive, where it takes
\* the request queued next.
C11_DroppedResponderFails ==
    /\ [](DroppedWhileBlocked => ENABLED LoaderWake)
    /\ [][(DroppedWhileBlocked /\ pc' # "blocked") =>
            /\ pc' = "recv"
            /\ handled' = cur.n
            /\ to_client' = Append(to_client, [n |-> cur.n, reply |-> Error(RecvErrorText)])
            /\ last'.msg = cur.msg
            /\ current_marks' = current_marks
            /\ buffers_available' = buffers_available]_vars
    /\ DroppedWhileBlocked ~> (pc = "recv")
    /\ []((pc = "recv" /\ main_q # <<>>) => ENABLED SessionRecv)

\* The read waits on a one-shot channel whose responder exists and has sent
\* nothing.
Unanswered == pc = "blocked" /\ oneshot.state = "waiting"

IsPrefix(p, q) == Len(p) <= Len(q) /\ SubSeq(q, 1, Len(p)) = p

\* C12 as stated: a file-content request that is dropped or not answered
\* keeps the compiler thread blocked: the read returns only for a value.
C12_Original ==
    [][(pc = "blocked" /\ oneshot.state # "value") => pc' = "blocked"]_vars

\* C12, amended: while the responder of a file-content request exists and
\* has sent nothing, the session loop thread can take no step (there is no
\* timeout and no cancellation): the request in hand is not finished, no
\* later request is taken from the channel and no reply is sent; the wait
\* ends only by a value being sent or the responder being dropped.  Once
\* the responder is dropped with no value sent the read does not block: it
\* can return, and when it does it fails with the panic of the unwrap on
\* recv()'s error, which ends the handling of the request.
C12_UnansweredBlocks ==
    /\ [](Unanswered => ~ENABLED SessionThread)
    /\ [][(Unanswered /\ Unanswered') =>
            /\ UNCHANGED <<current_marks, buffers_available, last, cur, nread,
                           handled, to_client>>
            /\ IsPrefix(main_q, main_q')]_vars
    /\ [][(Unanswered /\ ~Unanswered') =>
            /\ pc' = "blocked"
            /\ oneshot'.state \in {"value", "dropped"}
            /\ UNCHANGED <<current_marks, buffers_available, handled, to_client>>]_vars
    /\ [](DroppedWhileBlocked => ENABLED LoaderWake)
    /\ [][(DroppedWhileBlocked /\ ~DroppedWhileBlocked') =>
            /\ pc' \in {"recv", "crashed"}
            /\ handled' = handled + 1
            /\ last'.msg = cur.msg
            /\ last'.io = PanicString(RecvErrorText)]_vars

\* The client was asked for a file and has not answered; a later request
\* waits in the channel.
C12_Witness ==
    /\ Unanswered
    /\ pending.state = "asked"
    /\ main_q # <<>>
    /\ nsent = MaxRequests

\* C16: current_marks and buffers_available change only in the step of the
\* session loop thread that ends a request; no step of the worker or of the
\* client changes them, in any interleaving.  The file loader's set is
\* the copy of buffers_available made when the compiler run starts and stays
\* as it is to the end of the run.
C16_SessionOwnsState ==
    /\ [][(current_marks' # current_marks \/ buffers_available' # buffers_available) =>
            /\ pc \in {"recv", "compile", "blocked", "send"}
            /\ pc' = "recv"
            /\ handled' = handled + 1
            /\ UNCHANGED <<worker_q, worker_alive, pending, latest, nsent, arrived>>]_vars
    /\ [][(worker_q' # worker_q \/ worker_alive' # worker_alive \/ pending' # pending
           \/ latest' # latest \/ nsent' # nsent \/ arrived' # arrived) =>
            UNCHANGED <<current_marks, buffers_available, loader>>]_vars
    /\ [][(pc = "recv" /\ pc' = "compile") => loader' = buffers_available]_vars
    /\ [][(InProgress = 1 /\ InProgress' = 1) => loader' = loader]_vars

\* The worker served a read of the compiler run of a session that has
\* marks and available buffers.
C16_Witness ==
    /\ InProgress = 1
    /\ Len(seen) >= 1
    /\ seen[1].via = "worker"
    /\ current_marks # {}
    /\ loader # {}

\* The file-content requests in a channel to the worker.
NeedFiles(q) == {i \in 1..Len(q) : q[i].kind = "NeedFile"}

\* The canonical path of the file the compiler run reads next.
NextPath == canonicalize(ReadPlan[nread + 1]).path

\* C19: a read_file of a path whose canonical form is in the loader's set
\* sends one NeedFile, with a one-shot channel made for it, and returns only
\* when a value has arrived on that channel; a read_file of another path
\* sends none and returns at once; file_exists and abs_path send none and
\* wait for nothing, whatever the loader's set.
C19_OneRequestPerRead ==
    /\ [](Cardinality(NeedFiles(worker_q)) <= 1)
    /\ [](pc # "blocked" => oneshot = NoOneshot)
    /\ [][(pc = "compile" /\ pc' = "blocked") =>
            /\ NextPath \in loader
            /\ worker_q' = Append(worker_q, NeedFile(NextPath))
            /\ oneshot = NoOneshot
            /\ oneshot'.state = "waiting"
            /\ nread' = nread]_vars
    /\ [][(pc = "compile" /\ pc' = "compile" /\ nread' = nread + 1) =>
            /\ NextPath \notin loader
            /\ worker_q' = worker_q
            /\ oneshot' = oneshot]_vars
    /\ [][(pc = "blocked" /\ pc' = "compile") =>
            /\ oneshot.state = "value"
            /\ nread' = nread + 1
            /\ seen'[nread'].bytes = oneshot.content
            /\ worker_q' = worker_q]_vars
    /\ [][(nquery' = nquery + 1 /\ nread' = nread) =>
            /\ pc = "compile"
            /\ pc' = "compile"
            /\ worker_q' = worker_q
            /\ oneshot' = oneshot]_vars

\* A compiler run that read a.rs twice through the worker and has then
\* queried b.rs, which it has yet to read.
C19_Witness ==
    /\ pc = "compile"
    /\ nread = 2
    /\ nquery = 3
    /\ seen[1].via = "worker"
    /\ seen[2].via = "worker"
    /\ worker_q = <<>>

\* C22: with a client that answers every question the worker asks, and
\* threads that keep running, every request that reached the session loop's
\* channel is taken and handled to its end (requests are taken in order, so
\* an outstanding request leads to none outstanding); and the loop ends
\* only once the channel is closed and empty.
C22_ResponsiveProgress ==
    /\ (handled < arrived) ~> (handled = arrived)
    /\ [](pc = "ended" => (~worker_alive /\ main_q = <<>> /\ handled = arrived))
    /\ [](handled + InProgress + Len(main_q) = arrived)

\* Two requests handled with the worker still running, the second one after
\* the worker answered a read of a.rs with the client's text; none is left.
C22_Witness ==
    /\ worker_alive
    /\ pc = "recv"
    /\ handled = arrived
    /\ main_q = <<>>
    /\ latest[Canon_a] = "edited text"
    /\ \E i \in 1..Len(to_client) :
          to_client[i].n = 2 /\ to_client[i].reply.type \in {"Mark", "MarkList"}

-----------------------------------------------------------------------------
\* Properties of the session loop without a reply destination

\* C13: after the connection to the client closed and the replies have no
\* destination on to_client, the session loop thread does not end by a panic,
\* whatever request it handles.
C13_LoopOutlivesClient == ~client_open => pc # "crashed"

-----------------------------------------------------------------------------
\* Properties of the session loop over a changing crate

EndsWithError(sent) == sent # <<>> /\ sent[Len(sent)].type = "Error"

\* C20: a request that ends with an Error reply leaves current_marks and
\* buffers_available as they were before it, and no Mark and no MarkList
\* was sent for it.
C20_ErrorAtomicity ==
    EndsWithError(last.sent) =>
        /\ current_marks = last.pre_marks
        /\ buffers_available = last.pre_bufs
        /\ OfType(last.sent, "Mark") \cup OfType(last.sent, "MarkList") = {}

-----------------------------------------------------------------------------
\* Properties of the string literal conversion

\* The value of an element of the emitted array: the literal, or the
\* negation of the literal under a unary minus.
ElementValue(e) ==
    IF e.expr = "Unary" THEN 0 - e.arg.lit.plus ELSE e.lit.plus

\* The literal an element is written with.
ElementLit(e) == IF e.expr = "Unary" THEN e.arg ELSE e

\* A byte read as a signed 8-bit value.
Signed8(c) == IF c >= 128 THEN c - 256 ELSE c

\* The type has elements of type unsigned char.
OfUnsignedChars(ty) ==
    ty.ctype.kind = "ConstantArray" /\ ty.ctype.elem_ty = "UChar"

\* C23: in a static context the emitted array has one element per byte of
\* the sized byte vector, in order.  A byte that is negative as a signed
\* char, under a type whose elements are not unsigned char, becomes a unary
\* minus applied to the literal of its absolute value; any other byte
\* becomes its own literal.  No abs() overflows, every literal is the
\* number written (nothing wrapped), and the element's value is the byte as
\* a signed char, respectively the byte; this includes 128, that is -128.
C23_StaticElements ==
    (literal.pc = "done" /\ literal.ctx.is_static) =>
        LET bytes == literal.out.bytes
            array == literal.out.result.val
        IN  /\ ~literal.out.overflow
            /\ array.expr = "Array"
            /\ Len(array.elems) = Len(bytes)
            /\ \A i \in 1..Len(bytes) :
                  LET c == bytes[i]
                      e == array.elems[i]
                  IN  /\ ElementLit(e).expr = "Lit"
                      /\ ElementLit(e).lit.wraps = 0
                      /\ ElementLit(e).lit.plus >= 0
                      /\ IF ~OfUnsignedChars(literal.ty) /\ Signed8(c) < 0
                         THEN /\ e.expr = "Unary" /\ e.op = "-"
                              /\ e.arg.lit.plus = 0 - Signed8(c)
                              /\ ElementValue(e) = Signed8(c)
                         ELSE /\ e.expr = "Lit"
                              /\ ElementValue(e) = c

\* The one-byte literal 128 converted for a static array of two chars: the
\* elements are -128 and the padding 0.
C23_Witness ==
    /\ literal.pc = "done"
    /\ literal.ctx.is_static
    /\ literal.val = <<128>>
    /\ literal.ty.ctype = ConstantArray("Char", 2)
    /\ literal.out.result.val.elems =
          <<unary_expr("-", int_lit(as_u128(128))), int_lit(as_u128(0))>>

\* The reference to a u8 array that the non-static branch transmutes from.
SourceArray(e) == e.arg.source_ty.to

\* C24: the conversion fixes the length of the byte vector before it emits
\* anything.  For a constant array of size elements the vector has exactly
\* size * width bytes: the literal's bytes up to that length, unchanged, and
\* zeros beyond the literal's end.  For any other type it is the literal's
\* bytes followed by exactly width zero bytes.  The emitted array has one
\* element per byte of that vector; in the non-static case the u8 array
\* type has that length and the byte string is that vector.
C24_LengthFixedFirst ==
    literal.pc = "done" =>
        LET val == literal.val
            width == literal.width
            kind == literal.ty.ctype
            bytes == literal.out.bytes
            e == literal.out.result.val
        IN  /\ IF kind.kind = "ConstantArray"
               THEN /\ Len(bytes) = kind.size * width
                    /\ \A i \in 1..Len(bytes) :
                          bytes[i] = IF i <= Len(val) THEN val[i] ELSE 0
               ELSE /\ Len(bytes) = Len(val) + width
                    /\ \A i \in 1..Len(bytes) :
                          bytes[i] = IF i <= Len(val) THEN val[i] ELSE 0
            /\ IF literal.ctx.is_static
               THEN e.expr = "Array" /\ Len(e.elems) = Len(bytes)
               ELSE /\ e.expr = "Unary" /\ e.op = "*"
                    /\ e.arg.expr = "Transmute"
                    /\ SourceArray(e).elem = "u8"
                    /\ SourceArray(e).len.lit = [wraps |-> 0, plus |-> Len(bytes)]
                    /\ e.arg.arg = byte_str(bytes)

\* A literal of two 16-bit characters converted, outside a static, for an
\* array of one: the second character is cut off.
C24_Witness ==
    /\ literal.pc = "done"
    /\ ~literal.ctx.is_static
    /\ literal.width = 2
    /\ literal.val = <<97, 0, 128, 0>>
    /\ literal.ty.ctype = ConstantArray("Char", 1)
    /\ literal.out.bytes = <<97, 0>>
    /\ SourceArray(literal.out.result.val).len.lit.plus = 2

====
